---- MODULE Spec2Model ----
(***************************************************************************)
(* Model of app/frontend/src/components/Answer/AnswerParser.tsx:           *)
(* parseAnswerToHtml turns an answer text with inline [identifier]         *)
(* markers into annotated text plus the list of unique citations and the   *)
(* parallel list of their URLs.                                            *)
(*                                                                         *)
(* Text is a sequence of one-character strings.  The markup produced by    *)
(* renderToStaticMarkup is a sequence of the same kind in which the fixed  *)
(* pieces of the <sup> element (and the entities of escaped characters)    *)
(* are single elements.                                                    *)
(*                                                                         *)
(* Data points are strings (the typeof test of line 49 always passes) and  *)
(* the source-URL list has no holes: an index past its end is undefined.   *)
(* isCitationValid (lines 11-32) is not called by parseAnswerToHtml.       *)
(*                                                                         *)
(* The module also models the two maintenance scripts of the repository,   *)
(* clean_filenames.sh and clean_json.sh, each as a run of find followed by *)
(* the turns of its while loop over a small folder.                        *)
(***************************************************************************)
EXTENDS Integers, Sequences, FiniteSets, TLC

VARIABLES
    answer,                 \* the ChatAppResponse: content, data_points, sourceurl
    isStreaming,            \* the isStreaming argument
    pc,                     \* "call", "map", "done", or "threw" after a TypeError
    sourceUrls,             \* const sourceUrls (line 53)
    parsedAnswer,           \* let parsedAnswer (lines 60-75)
    parts,                  \* const parts (line 77)
    index,                  \* index of the part the map callback handles next
    fragments,              \* the fragments produced so far (line 80)
    foundCitationsInText,   \* the found-citations list (line 57)
    result,                 \* the returned HtmlParsedAnswer (lines 133-137)
    calls,                  \* the number of calls made so far, this one included
    console,                \* the diagnostics logged so far (lines 44, 115)
    clicked,                \* the invocations of onCitationClicked so far
    folder,                 \* the files of the folder a script works on
    dirs,                   \* the directories of that folder
    lines,                  \* the output of find that the loop has not read yet
    recursive,              \* the script's recursive flag (clean_filenames.sh)
    sh,                     \* the script's position: "idle", "find", "loop", "end"
    runs,                   \* the number of runs of the script started so far
    original                \* the folder as it was when the run started

parserVars == <<answer, isStreaming, pc, sourceUrls, parsedAnswer, parts, index,
                fragments, foundCitationsInText, result, calls, console, clicked>>

scriptVars == <<folder, dirs, lines, recursive, sh, runs, original>>

vars == <<answer, isStreaming, pc, sourceUrls, parsedAnswer, parts, index,
          fragments, foundCitationsInText, result, calls, console, clicked,
          folder, dirs, lines, recursive, sh, runs, original>>

----------------------------------------------------------------------------
(* Bounds of the inputs *)

MaxLen == 4

MaxTokens == 4

MaxShapeTokens == 3

MaxCallTokens == 2

MaxCalls == 2

MaxCandidateLen == 4

MaxFragmentTokens == 3

MaxNameLen == 2

MaxContentLen == 2

MaxRuns == 2

----------------------------------------------------------------------------
(* Character classes of the JavaScript regular expressions and of trim() *)

WhiteSpace == {" ", "\t", "\n", "\r"}

LineTerminators == {"\n", "\r"}

WordChars ==
    {"a","b","c","d","e","f","g","h","i","j","k","l","m","n","o","p","q","r",
     "s","t","u","v","w","x","y","z",
     "A","B","C","D","E","F","G","H","I","J","K","L","M","N","O","P","Q","R",
     "S","T","U","V","W","X","Y","Z",
     "0","1","2","3","4","5","6","7","8","9","_"}

----------------------------------------------------------------------------
(* String.prototype.trim *)

RECURSIVE TrimStart(_)
TrimStart(s) ==
    IF Len(s) > 0 /\ s[1] \in WhiteSpace THEN TrimStart(Tail(s)) ELSE s

RECURSIVE TrimEnd(_)
TrimEnd(s) ==
    IF Len(s) > 0 /\ s[Len(s)] \in WhiteSpace
    THEN TrimEnd(SubSeq(s, 1, Len(s) - 1))
    ELSE s

TrimEndOnly(s) == TrimEnd(s)

Trim(s) == TrimEnd(TrimStart(s))

----------------------------------------------------------------------------
(* Omission of a citation that is still being typed (lines 63-75).         *)
(* ScanBack(s, i) is the value of lastIndex when the loop is at the        *)
(* 0-based position i.                                                     *)

RECURSIVE ScanBackNoBreak(_, _)
ScanBackNoBreak(s, i) ==
    IF i < 0 THEN Len(s)
    ELSE IF s[i + 1] = "[" THEN i
    ELSE ScanBackNoBreak(s, i - 1)

RECURSIVE ScanBackKeepBracket(_, _)
ScanBackKeepBracket(s, i) ==
    IF i < 0 THEN Len(s)
    ELSE IF s[i + 1] = "]" THEN Len(s)
    ELSE IF s[i + 1] = "[" THEN i + 1
    ELSE ScanBackKeepBracket(s, i - 1)

RECURSIVE ScanBack(_, _)
ScanBack(s, i) ==
    IF i < 0 THEN Len(s)
    ELSE IF s[i + 1] = "]" THEN Len(s)
    ELSE IF s[i + 1] = "[" THEN i
    ELSE ScanBack(s, i - 1)

OmitTypedCitation(s) == SubSeq(s, 1, ScanBack(s, Len(s) - 1))

ParsedAnswerAlwaysOmitted(content, streaming) == OmitTypedCitation(Trim(content))

ParsedAnswerOf(content, streaming) ==
    IF streaming THEN OmitTypedCitation(Trim(content)) ELSE Trim(content)

----------------------------------------------------------------------------
\* parsedAnswer.split on "[", one or more characters other than "]", "]",
\* with the bracketed text captured (line 77)

\* the last position of the run of characters other than "]" that follows j
RECURSIVE RunEnd(_, _)
RunEnd(s, j) ==
    IF j + 1 <= Len(s) /\ s[j + 1] # "]" THEN RunEnd(s, j + 1) ELSE j

MatchEndAllowEmpty(s, q) ==
    IF s[q] # "[" THEN 0
    ELSE LET r == RunEnd(s, q)
         IN  IF r + 1 <= Len(s) THEN r + 1 ELSE 0

\* the position of the "]" that ends a match starting at q, or 0 if the
\* pattern does not match at q
MatchEnd(s, q) ==
    IF s[q] # "[" THEN 0
    ELSE LET r == RunEnd(s, q)
         IN  IF r >= q + 1 /\ r + 1 <= Len(s) THEN r + 1 ELSE 0

\* p: where the pending plain text starts; q: where the next match is tried
RECURSIVE SplitFrom(_, _, _)
SplitFrom(s, p, q) ==
    IF q > Len(s) THEN << SubSeq(s, p, Len(s)) >>
    ELSE LET e == MatchEnd(s, q)
         IN  IF e = 0 THEN SplitFrom(s, p, q + 1)
             ELSE << SubSeq(s, p, q - 1), SubSeq(s, q + 1, e - 1) >>
                  \o SplitFrom(s, e + 1, e + 1)

Split(s) == SplitFrom(s, 1, 1)

----------------------------------------------------------------------------
\* The shape test of line 92: some character, a dot, word characters, then
\* optionally "#" and non-whitespace characters, up to the end of the string

LooksLikeCitationNoFragment(c) ==
    \E d \in 2..Len(c) :
        /\ c[d] = "."
        /\ c[d - 1] \notin LineTerminators
        /\ d + 1 <= Len(c)
        /\ \A k \in (d + 1)..Len(c) : c[k] \in WordChars

LooksLikeCitation(c) ==
    \E d \in 2..Len(c) :
        /\ c[d] = "."
        /\ c[d - 1] \notin LineTerminators
        /\ \E e \in (d + 1)..Len(c) :
              /\ \A k \in (d + 1)..e : c[k] \in WordChars
              /\ \/ e = Len(c)
                 \/ /\ c[e + 1] = "#"
                    /\ \A k \in (e + 2)..Len(c) : c[k] \notin WhiteSpace

----------------------------------------------------------------------------
(* findCitationIndexInDataPoints (lines 34-50) *)

StartsWith(dataPoint, citationCandidate) ==
    /\ Len(citationCandidate) <= Len(dataPoint)
    /\ SubSeq(dataPoint, 1, Len(citationCandidate)) = citationCandidate

ReadsPropertyAlways(contextDataPoints) == TRUE

\* "contextDataPoints &&" (lines 39, 41): the property after it is read only
\* when the container is truthy
ReadsProperty(contextDataPoints) == contextDataPoints.isObject

\* reading a property of null or undefined is a TypeError
FindThrows(contextDataPoints) ==
    /\ ~contextDataPoints.isArray
    /\ ReadsProperty(contextDataPoints)
    /\ ~contextDataPoints.isObject

DataPointsArrayNoText(contextDataPoints) ==
    IF contextDataPoints.isArray
    THEN [known |-> TRUE, array |-> contextDataPoints.items]
    ELSE IF contextDataPoints.isObject /\ contextDataPoints.sourcesIsArray
    THEN [known |-> TRUE, array |-> contextDataPoints.sources]
    ELSE [known |-> FALSE, array |-> << >>]

DataPointsArraySourcesFirst(contextDataPoints) ==
    IF contextDataPoints.isArray
    THEN [known |-> TRUE, array |-> contextDataPoints.items]
    ELSE IF contextDataPoints.isObject /\ contextDataPoints.sourcesIsArray
    THEN [known |-> TRUE, array |-> contextDataPoints.sources]
    ELSE IF contextDataPoints.isObject /\ contextDataPoints.textIsArray
    THEN [known |-> TRUE, array |-> contextDataPoints.text]
    ELSE [known |-> FALSE, array |-> << >>]

\* the array of source documents that is searched
DataPointsArray(contextDataPoints) ==
    IF contextDataPoints.isArray
    THEN [known |-> TRUE, array |-> contextDataPoints.items]
    ELSE IF contextDataPoints.isObject /\ contextDataPoints.textIsArray
    THEN [known |-> TRUE, array |-> contextDataPoints.text]
    ELSE IF contextDataPoints.isObject /\ contextDataPoints.sourcesIsArray
    THEN [known |-> TRUE, array |-> contextDataPoints.sources]
    ELSE [known |-> FALSE, array |-> << >>]

FindIndexLast(array, citationCandidate) ==
    LET hits == {i \in 1..Len(array) : StartsWith(array[i], citationCandidate)}
    IN  IF hits = {} THEN -1
        ELSE (CHOOSE i \in hits : \A j \in hits : i >= j) - 1

\* 0-based index of the first matching data point, or -1
FindIndex(array, citationCandidate) ==
    LET hits == {i \in 1..Len(array) : StartsWith(array[i], citationCandidate)}
    IN  IF hits = {} THEN -1
        ELSE (CHOOSE i \in hits : \A j \in hits : i <= j) - 1

FindCitationIndexUnknownFirst(contextDataPoints, citationCandidate) ==
    LET dp == DataPointsArray(contextDataPoints)
    IN  IF dp.known THEN FindIndex(dp.array, citationCandidate) ELSE 0

FindCitationIndexInDataPoints(contextDataPoints, citationCandidate) ==
    LET dp == DataPointsArray(contextDataPoints)
    IN  IF dp.known THEN FindIndex(dp.array, citationCandidate) ELSE -1

----------------------------------------------------------------------------
(* The map callback of parseAnswerToHtml (lines 80-131) *)

\* answer.context.data_addon?.sourceurl || [] (line 53)
SourceUrlsOf(sourceurl) == IF sourceurl.present THEN sourceurl.urls ELSE << >>

\* sourceUrls[dataPointIndex] (line 100)
UrlAt(urls, dataPointIndex) ==
    IF dataPointIndex >= 0 /\ dataPointIndex < Len(urls)
    THEN [defined |-> TRUE, value |-> urls[dataPointIndex + 1]]
    ELSE [defined |-> FALSE, value |-> ""]

ErrorLogsNever(contextDataPoints) == << >>

\* console.error (line 44), reached when no array of data points is found
ErrorLogs(contextDataPoints) ==
    IF DataPointsArray(contextDataPoints).known THEN << >>
    ELSE << [level |-> "error", identifier |-> << >>] >>

\* console.warn (line 115), reached when a new citation has no URL
WarnLogs(identifier, url) ==
    IF url.defined THEN << >>
    ELSE << [level |-> "warn", identifier |-> identifier] >>

RejectOnlyBadShape(dataPointIndex, looksLikeCitation) == ~looksLikeCitation

RejectOnlyNotFound(dataPointIndex, looksLikeCitation) == dataPointIndex = -1

\* the test of line 94
IsRejected(dataPointIndex, looksLikeCitation) ==
    dataPointIndex = -1 \/ ~looksLikeCitation

FindExistingNever(found, identifier) == -1

FindExistingByPrefix(found, identifier) ==
    LET hits == {i \in 1..Len(found) :
                    \/ StartsWith(found[i].identifier, identifier)
                    \/ StartsWith(identifier, found[i].identifier)}
    IN  IF hits = {} THEN -1
        ELSE (CHOOSE i \in hits : \A j \in hits : i <= j) - 1

\* foundCitationsInText.find(...) and indexOf (lines 106, 109):
\* 0-based position of the first entry with this identifier, or -1
FindExisting(found, identifier) ==
    LET hits == {i \in 1..Len(found) : found[i].identifier = identifier}
    IN  IF hits = {} THEN -1
        ELSE (CHOOSE i \in hits : \A j \in hits : i <= j) - 1

ExistingDisplayIndexZeroBased(found, existing) == existing

ExistingDisplayIndexLength(found, existing) == Len(found)

\* citationDisplayIndex of an existing citation (line 109)
ExistingDisplayIndex(found, existing) == existing + 1

PushCitationFront(found, identifier, url) ==
    << [identifier |-> identifier,
        url |-> IF url.defined THEN url.value ELSE ""] >> \o found

PushCitationOnlyWithUrl(found, identifier, url) ==
    IF url.defined
    THEN Append(found, [identifier |-> identifier, url |-> url.value])
    ELSE found

\* foundCitationsInText.push (lines 112-119)
PushCitation(found, identifier, url) ==
    Append(found, [identifier |-> identifier,
                   url |-> IF url.defined THEN url.value ELSE ""])

----------------------------------------------------------------------------
(* renderToStaticMarkup(<sup className="citationNumber" title=..>n</sup>)  *)

SupOpen == "<sup class=\"citationNumber\" title=\""

SupMid == "\">"

SupClose == "</sup>"

\* escaping of text and attribute values by the renderer
EscapeChar(c) ==
    CASE c = "&" -> "&amp;"
      [] c = "<" -> "&lt;"
      [] c = ">" -> "&gt;"
      [] c = "\"" -> "&quot;"
      [] c = "'" -> "&#x27;"
      [] OTHER -> c

EscapeHtml(s) == [i \in 1..Len(s) |-> EscapeChar(s[i])]

DigitChars == <<"0", "1", "2", "3", "4", "5", "6", "7", "8", "9">>

RECURSIVE Digits(_)
Digits(n) ==
    IF n < 10 THEN << DigitChars[n + 1] >>
    ELSE Digits(n \div 10) \o << DigitChars[(n % 10) + 1] >>

RenderSup(title, citationDisplayIndex) ==
    << SupOpen >> \o EscapeHtml(title) \o << SupMid >>
        \o Digits(citationDisplayIndex) \o << SupClose >>

LiteralWithoutBrackets(candidate) == candidate

\* the template literal of line 96
Literal(candidate) == << "[" >> \o candidate \o << "]" >>

\* the callback ends in a TypeError instead of returning a fragment
CallbackThrows(i, contextDataPoints) ==
    i % 2 = 1 /\ FindThrows(contextDataPoints)

\* the callback applied to the part at the 0-based position i: the fragment
\* it returns, the found-citations list it leaves and the diagnostics it logs
MapCallback(part, i, found, contextDataPoints, urls) ==
    IF i % 2 = 0 THEN [fragment |-> part, found |-> found, logs |-> << >>]
    ELSE
      LET dataPointIndex == FindCitationIndexInDataPoints(contextDataPoints, part)
          looksLikeCitation == LooksLikeCitation(part)
          errors == ErrorLogs(contextDataPoints)
      IN  IF IsRejected(dataPointIndex, looksLikeCitation)
          THEN [fragment |-> Literal(part), found |-> found, logs |-> errors]
          ELSE
            LET citationUrl == UrlAt(urls, dataPointIndex)
                existing == FindExisting(found, part)
            IN  IF existing # -1
                THEN [fragment |-> RenderSup(part, ExistingDisplayIndex(found, existing)),
                      found |-> found, logs |-> errors]
                ELSE LET pushed == PushCitation(found, part, citationUrl)
                     IN  [fragment |-> RenderSup(part, Len(pushed)),
                          found |-> pushed,
                          logs |-> errors \o WarnLogs(part, citationUrl)]

\* fragments.join("") (line 134)
RECURSIVE Join(_)
Join(fs) == IF fs = << >> THEN << >> ELSE Head(fs) \o Join(Tail(fs))

CitationUrlsNonEmpty(found) ==
    LET F[k \in 0..Len(found)] ==
          IF k = 0 THEN << >>
          ELSE IF found[k].url = "" THEN F[k - 1]
          ELSE Append(F[k - 1], found[k].url)
    IN  F[Len(found)]

\* foundCitationsInText.map(c => c.identifier) (line 135)
CitationsOf(found) == [k \in 1..Len(found) |-> found[k].identifier]

\* foundCitationsInText.map(c => c.url) (line 136)
CitationUrlsOf(found) == [k \in 1..Len(found) |-> found[k].url]

\* the returned object (lines 133-137)
HtmlParsedAnswer(frags, found) ==
    [answerHtml |-> Join(frags),
     citations |-> CitationsOf(found),
     citationUrls |-> CitationUrlsOf(found)]

\* the whole call as a function of its arguments
RECURSIVE MapFrom(_, _, _, _, _, _)
MapFrom(ps, i, frags, found, contextDataPoints, urls) ==
    IF i >= Len(ps) THEN HtmlParsedAnswer(frags, found)
    ELSE LET r == MapCallback(ps[i + 1], i, found, contextDataPoints, urls)
         IN  MapFrom(ps, i + 1, Append(frags, r.fragment), r.found,
                     contextDataPoints, urls)

ParseAnswerToHtml(ans, streaming) ==
    MapFrom(Split(ParsedAnswerOf(ans.content, streaming)), 0, << >>, << >>,
            ans.data_points, SourceUrlsOf(ans.sourceurl))

----------------------------------------------------------------------------
(* The inputs: every text of at most MaxLen characters of CharAlphabet,     *)
(* every concatenation of at most MaxTokens pieces of TokenPieces, and the  *)
(* example "See [doc1.pdf#p"; a flat data-points array, an object with text *)
(* and sources, and a container of no known shape without source URLs.     *)

CharAlphabet == {"[", "]", " ", "a", "."}

CharAnswers == UNION {[1..n -> CharAlphabet] : n \in 0..MaxLen}

TokenA == <<"[", "a", ".", "p", "]">>
TokenB == <<"[", "b", ".", "p", "]">>
TokenC == <<"[", "c", ".", "p", "]">>
TokenR == <<"[", "R", "]">>

TokenTyping == <<" ", "[", "b">>

TokenText == <<"x", " ">>

TokenPieces == {TokenA, TokenB, TokenC, TokenR, TokenTyping, TokenText}

TokenAnswers ==
    {Join(ps) : ps \in UNION {[1..n -> TokenPieces] : n \in 0..MaxTokens}}

\* "See [doc1.pdf#p"
ExampleTyping ==
    <<"S", "e", "e", " ", "[", "d", "o", "c", "1", ".", "p", "d", "f", "#", "p">>

\* "[][x [a.p]"
ExampleNested ==
    <<"[", "]", "[", "x", " ", "[", "a", ".", "p", "]">>

Answers == CharAnswers \cup TokenAnswers \cup {ExampleTyping, ExampleNested}

DataPointA == <<"a", ".", "p", ":", " ", "t">>
DataPointB == <<"b", ".", "p", ":", " ", "t">>
DataPointC == <<"c", ".", "p", ":", " ", "t">>
DataPointAA == <<"a", ".", "a">>
DataPointR == <<"R", ":", " ", "t">>

FlatDataPoints(items) ==
    [isArray |-> TRUE, isObject |-> TRUE, items |-> items,
     textIsArray |-> FALSE, text |-> << >>,
     sourcesIsArray |-> FALSE, sources |-> << >>]

ObjectDataPoints(textIsArray, text, sourcesIsArray, sources) ==
    [isArray |-> FALSE, isObject |-> TRUE, items |-> << >>,
     textIsArray |-> textIsArray, text |-> text,
     sourcesIsArray |-> sourcesIsArray, sources |-> sources]

NoDataPoints ==
    [isArray |-> FALSE, isObject |-> FALSE, items |-> << >>,
     textIsArray |-> FALSE, text |-> << >>,
     sourcesIsArray |-> FALSE, sources |-> << >>]

Contexts ==
    { [data_points |-> FlatDataPoints(<<DataPointA, DataPointB, DataPointC,
                                        DataPointAA, DataPointR>>),
       sourceurl |-> [present |-> TRUE,
                      urls |-> <<"urlA", "urlB", "urlC", "urlAA", "urlR">>]],
      [data_points |-> ObjectDataPoints(TRUE, <<DataPointB, DataPointA>>,
                                        TRUE, <<DataPointC>>),
       sourceurl |-> [present |-> TRUE, urls |-> <<"urlB">>]],
      [data_points |-> NoDataPoints,
       sourceurl |-> [present |-> FALSE, urls |-> << >>]] }

----------------------------------------------------------------------------
(* The call as a state machine *)

\* no script runs
ScriptIdle ==
    /\ folder = << >>
    /\ dirs = {}
    /\ lines = << >>
    /\ recursive = FALSE
    /\ sh = "idle"
    /\ runs = 0
    /\ original = << >>

InitWith(answers, contexts) ==
    /\ \E content \in answers, ctx \in contexts :
          answer = [content |-> content,
                    data_points |-> ctx.data_points,
                    sourceurl |-> ctx.sourceurl]
    /\ isStreaming \in BOOLEAN
    /\ pc = "call"
    /\ sourceUrls = << >>
    /\ parsedAnswer = << >>
    /\ parts = << >>
    /\ index = 0
    /\ fragments = << >>
    /\ foundCitationsInText = << >>
    /\ result = [answerHtml |-> << >>, citations |-> << >>, citationUrls |-> << >>]
    /\ calls = 1
    /\ console = << >>
    /\ clicked = 0
    /\ ScriptIdle

BeginKeepFound ==
    /\ pc = "call"
    /\ sourceUrls' = SourceUrlsOf(answer.sourceurl)
    /\ parsedAnswer' = ParsedAnswerOf(answer.content, isStreaming)
    /\ parts' = Split(parsedAnswer')
    /\ index' = 0
    /\ fragments' = << >>
    /\ pc' = "map"
    /\ UNCHANGED <<answer, isStreaming, result, calls, foundCitationsInText,
                   console, clicked>>
    /\ UNCHANGED scriptVars

BeginTrimsInPlace ==
    /\ pc = "call"
    /\ answer' = [answer EXCEPT !.content = Trim(answer.content)]
    /\ sourceUrls' = SourceUrlsOf(answer.sourceurl)
    /\ foundCitationsInText' = << >>
    /\ parsedAnswer' = ParsedAnswerOf(answer.content, isStreaming)
    /\ parts' = Split(parsedAnswer')
    /\ index' = 0
    /\ fragments' = << >>
    /\ pc' = "map"
    /\ UNCHANGED <<isStreaming, result, calls, console, clicked>>
    /\ UNCHANGED scriptVars

\* lines 53-77
Begin ==
    /\ pc = "call"
    /\ sourceUrls' = SourceUrlsOf(answer.sourceurl)
    /\ foundCitationsInText' = << >>
    /\ parsedAnswer' = ParsedAnswerOf(answer.content, isStreaming)
    /\ parts' = Split(parsedAnswer')
    /\ index' = 0
    /\ fragments' = << >>
    /\ pc' = "map"
    /\ UNCHANGED <<answer, isStreaming, result, calls, console, clicked>>
    /\ UNCHANGED scriptVars

\* one call of the map callback (lines 80-131)
MapPart ==
    /\ pc = "map"
    /\ index < Len(parts)
    /\ IF CallbackThrows(index, answer.data_points)
       THEN /\ pc' = "threw"
            /\ UNCHANGED <<fragments, foundCitationsInText, index, console>>
       ELSE LET r == MapCallback(parts[index + 1], index, foundCitationsInText,
                                 answer.data_points, sourceUrls)
            IN  /\ fragments' = Append(fragments, r.fragment)
                /\ foundCitationsInText' = r.found
                /\ console' = console \o r.logs
                /\ index' = index + 1
                /\ pc' = pc
    /\ UNCHANGED <<answer, isStreaming, sourceUrls, parsedAnswer, parts, result,
                   calls, clicked>>
    /\ UNCHANGED scriptVars

\* lines 133-137
Return ==
    /\ pc = "map"
    /\ index = Len(parts)
    /\ result' = HtmlParsedAnswer(fragments, foundCitationsInText)
    /\ pc' = "done"
    /\ UNCHANGED <<answer, isStreaming, sourceUrls, parsedAnswer, parts, index,
                   fragments, foundCitationsInText, calls, console, clicked>>
    /\ UNCHANGED scriptVars

Next == Begin \/ MapPart \/ Return

Init == InitWith(Answers, Contexts)

Spec == Init /\ [][Next]_vars

----------------------------------------------------------------------------
(* Calls over the shapes of the context: answers of at most MaxShapeTokens  *)
(* pieces, with the data points as a flat array, under text, under sources, *)
(* under neither, or missing, and the source URLs complete, short or absent *)

ShapePieces == {TokenA, TokenB, TokenText}

ShapeAnswers ==
    {Join(ps) : ps \in UNION {[1..n -> ShapePieces] : n \in 0..MaxShapeTokens}}

\* "a.p#2": a second data point that starts with "a.p"
DataPointA2 == <<"a", ".", "p", "#", "2">>

ShapeUrls == [present |-> TRUE, urls |-> <<"urlA", "urlB", "urlA2">>]

NoUrls == [present |-> FALSE, urls |-> << >>]

ShapeContexts ==
    { [data_points |-> FlatDataPoints(<<DataPointA, DataPointB, DataPointA2>>),
       sourceurl |-> ShapeUrls],
      [data_points |-> ObjectDataPoints(TRUE, <<DataPointA, DataPointB, DataPointA2>>,
                                        FALSE, << >>),
       sourceurl |-> ShapeUrls],
      [data_points |-> ObjectDataPoints(TRUE, <<DataPointB>>, TRUE, <<DataPointA>>),
       sourceurl |-> ShapeUrls],
      [data_points |-> ObjectDataPoints(FALSE, << >>, TRUE, <<DataPointB, DataPointA>>),
       sourceurl |-> ShapeUrls],
      [data_points |-> ObjectDataPoints(FALSE, << >>, FALSE, << >>),
       sourceurl |-> ShapeUrls],
      [data_points |-> NoDataPoints, sourceurl |-> ShapeUrls],
      [data_points |-> FlatDataPoints(<<DataPointA, DataPointB>>),
       sourceurl |-> NoUrls],
      [data_points |-> FlatDataPoints(<<DataPointB, DataPointA>>),
       sourceurl |-> [present |-> TRUE, urls |-> <<"urlB">>]] }

InitShapes == InitWith(ShapeAnswers, ShapeContexts)

SpecShapes == InitShapes /\ [][Next]_vars

----------------------------------------------------------------------------
(* A sequence of calls: the function is called again, with any arguments,   *)
(* after it has returned.  A call runs to completion before the next one    *)
(* starts, as the function is synchronous.  What the locals of the earlier  *)
(* call held is left in place until the new call sets them.                 *)

CallPieces == {TokenA, TokenB}

CallAnswers ==
    {Join(ps) : ps \in UNION {[1..n -> CallPieces] : n \in 0..MaxCallTokens}}

CallContexts ==
    { [data_points |-> FlatDataPoints(<<DataPointA, DataPointB>>),
       sourceurl |-> [present |-> TRUE, urls |-> <<"urlA", "urlB">>]],
      [data_points |-> FlatDataPoints(<<DataPointB>>),
       sourceurl |-> NoUrls] }

CallAgain ==
    /\ pc = "done"
    /\ calls < MaxCalls
    /\ \E content \in CallAnswers, ctx \in CallContexts :
          answer' = [content |-> content,
                     data_points |-> ctx.data_points,
                     sourceurl |-> ctx.sourceurl]
    /\ isStreaming' \in BOOLEAN
    /\ pc' = "call"
    /\ calls' = calls + 1
    /\ UNCHANGED <<sourceUrls, parsedAnswer, parts, index, fragments,
                   foundCitationsInText, result, console, clicked>>
    /\ UNCHANGED scriptVars

NextCalls == Begin \/ MapPart \/ Return \/ CallAgain

InitCalls == InitWith(CallAnswers, CallContexts)

SpecCalls == InitCalls /\ [][NextCalls]_vars

----------------------------------------------------------------------------
(* Calls over the candidates: an answer that is one bracketed candidate of   *)
(* at most MaxCandidateLen characters, or one of the example candidates,     *)
(* with a data point that starts with the candidate; and answers of at most  *)
(* MaxFragmentTokens pieces that cite "a.p" and "a.p#2" against the one data *)
(* point "a.p#2"                                                             *)

CandidateAlphabet == {"a", ".", "p", "#", " ", "\n"}

CandidateStrings == UNION {[1..n -> CandidateAlphabet] : n \in 1..MaxCandidateLen}

\* "a.pdf", "a.pdf#", "a.pdf#page=1"
ExampleAccepted ==
    { <<"a", ".", "p", "d", "f">>,
      <<"a", ".", "p", "d", "f", "#">>,
      <<"a", ".", "p", "d", "f", "#", "p", "a", "g", "e", "=", "1">> }

\* ".pdf", "a.", "README", "a.pdf#page 1"
ExampleRejected ==
    { <<".", "p", "d", "f">>,
      <<"a", ".">>,
      <<"R", "E", "A", "D", "M", "E">>,
      <<"a", ".", "p", "d", "f", "#", "p", "a", "g", "e", " ", "1">> }

CandidateCalls ==
    { [content |-> << "[" >> \o c \o << "]" >>,
       data_points |-> FlatDataPoints(<< c \o <<":", " ", "t">> >>),
       sourceurl |-> [present |-> TRUE, urls |-> <<"url">>]]
      : c \in CandidateStrings \cup ExampleAccepted \cup ExampleRejected }

\* "[a.p#2]"
TokenA2 == <<"[", "a", ".", "p", "#", "2", "]">>

FragmentPieces == {TokenA, TokenA2, TokenText}

FragmentCalls ==
    { [content |-> Join(ps),
       data_points |-> FlatDataPoints(<<DataPointA2, DataPointB>>),
       sourceurl |-> [present |-> TRUE, urls |-> <<"urlA2", "urlB">>]]
      : ps \in UNION {[1..n -> FragmentPieces] : n \in 0..MaxFragmentTokens} }

InitCandidates ==
    /\ answer \in CandidateCalls \cup FragmentCalls
    /\ isStreaming \in BOOLEAN
    /\ pc = "call"
    /\ sourceUrls = << >>
    /\ parsedAnswer = << >>
    /\ parts = << >>
    /\ index = 0
    /\ fragments = << >>
    /\ foundCitationsInText = << >>
    /\ result = [answerHtml |-> << >>, citations |-> << >>, citationUrls |-> << >>]
    /\ calls = 1
    /\ console = << >>
    /\ clicked = 0
    /\ ScriptIdle

SpecCandidates == InitCandidates /\ [][Next]_vars

----------------------------------------------------------------------------
(* clean_filenames.sh.  The folder given to the script is "d", a clean name. *)
(* A path is <<directory, basename>>, the directory being << >> for the      *)
(* folder itself or the name of a subdirectory of it; the folder maps each   *)
(* path of a regular file to what the file holds, which is, for this script, *)
(* the path the file had when the script was first started.  File names hold *)
(* no newline, so a line of find's output is one path.                       *)

\* no call of parseAnswerToHtml is made
ParserIdle ==
    /\ answer = [content |-> << >>,
                 data_points |-> NoDataPoints,
                 sourceurl |-> NoUrls]
    /\ isStreaming = FALSE
    /\ pc = "idle"
    /\ sourceUrls = << >>
    /\ parsedAnswer = << >>
    /\ parts = << >>
    /\ index = 0
    /\ fragments = << >>
    /\ foundCitationsInText = << >>
    /\ result = [answerHtml |-> << >>, citations |-> << >>, citationUrls |-> << >>]
    /\ calls = 0
    /\ console = << >>
    /\ clicked = 0

\* the folder itself, as the directory of a path
Top == << >>

\* the characters sed keeps: [a-zA-Z0-9_.-] (line 28)
KeptChars == WordChars \cup {".", "-"}

\* the characters read strips at the ends of a line (IFS whitespace)
IfsWhiteSpace == {" ", "\t"}

\* read -r file (lines 45, 50): the line without the whitespace at its end;
\* the line starts with the folder's path, so none is stripped at its start
RECURSIVE StripEnd(_)
StripEnd(s) ==
    IF Len(s) > 0 /\ s[Len(s)] \in IfsWhiteSpace
    THEN StripEnd(SubSeq(s, 1, Len(s) - 1))
    ELSE s

ReadLine(line) == << line[1], StripEnd(line[2]) >>

\* echo "$basename" (line 28): bash's echo takes an argument made of "-" and
\* the letters n, e, E as options and prints nothing of it
Echo(s) ==
    IF Len(s) >= 2 /\ s[1] = "-" /\ \A k \in 2..Len(s) : s[k] \in {"n", "e", "E"}
    THEN << >>
    ELSE s

\* s/[^a-zA-Z0-9_.-]/_/g
ReplaceOthers(s) == [k \in 1..Len(s) |-> IF s[k] \in KeptChars THEN s[k] ELSE "_"]

\* s/_+/_/g
RECURSIVE Squeeze(_)
Squeeze(s) ==
    IF Len(s) < 2 THEN s
    ELSE IF s[1] = "_" /\ s[2] = "_" THEN Squeeze(Tail(s))
    ELSE << s[1] >> \o Squeeze(Tail(s))

\* s/^_//
StripLeading(s) == IF Len(s) > 0 /\ s[1] = "_" THEN Tail(s) ELSE s

\* s/_$//
StripTrailing(s) ==
    IF Len(s) > 0 /\ s[Len(s)] = "_" THEN SubSeq(s, 1, Len(s) - 1) ELSE s

\* new_basename (line 28)
NewBasename(basename) ==
    StripTrailing(StripLeading(Squeeze(ReplaceOthers(Echo(basename)))))

ExistsNever(f, ds, dir, name) == FALSE

\* [ -e "$dirname/$new_basename" ] (line 33): a file, a directory, or, for
\* an empty basename, the directory itself
Exists(f, ds, dir, name) ==
    \/ name = << >>
    \/ << dir, name >> \in DOMAIN f
    \/ (dir = Top /\ name \in ds)

\* mv -- "$filename" "$new_filename" (line 36): it fails, and changes
\* nothing, when there is no file at the source
Mv(f, src, dst) ==
    IF src \in DOMAIN f
    THEN [p \in (DOMAIN f \ {src}) \cup {dst} |-> IF p = dst THEN f[src] ELSE f[p]]
    ELSE f

\* clean_filename (lines 22-40) on one line of find's output
CleanFilename(f, ds, line) ==
    LET filename == ReadLine(line)
        dirname == filename[1]
        basename == filename[2]
        new_basename == NewBasename(basename)
    IN  IF basename = << >> \/ basename = new_basename THEN f
        ELSE IF Exists(f, ds, dirname, new_basename) THEN f
        ELSE Mv(f, filename, << dirname, new_basename >>)

\* the orders in which find may list the paths of S
Orders(S) ==
    {s \in [1..Cardinality(S) -> S] : \A i, j \in 1..Cardinality(S) : i # j => s[i] # s[j]}

\* find "$folder_path" [-maxdepth 1] -type f (lines 45, 50)
Found(f, rec) == {p \in DOMAIN f : rec \/ p[1] = Top}

FindFiles ==
    /\ sh = "find"
    /\ lines' \in Orders(Found(folder, recursive))
    /\ sh' = "loop"
    /\ UNCHANGED <<folder, dirs, recursive, runs, original>>
    /\ UNCHANGED parserVars

\* one turn of the while loop (lines 45-47, 50-52)
CleanNext ==
    /\ sh = "loop"
    /\ lines # << >>
    /\ folder' = CleanFilename(folder, dirs, Head(lines))
    /\ lines' = Tail(lines)
    /\ UNCHANGED <<dirs, recursive, sh, runs, original>>
    /\ UNCHANGED parserVars

\* echo "Filename cleaning complete." (line 55)
Complete ==
    /\ sh = "loop"
    /\ lines = << >>
    /\ sh' = "end"
    /\ UNCHANGED <<folder, dirs, lines, recursive, runs, original>>
    /\ UNCHANGED parserVars

\* the script is run again on the folder as the last run left it
RunAgain ==
    /\ sh = "end"
    /\ runs < MaxRuns
    /\ sh' = "find"
    /\ runs' = runs + 1
    /\ original' = folder
    /\ UNCHANGED <<folder, dirs, lines, recursive>>
    /\ UNCHANGED parserVars

NameAlphabet == {"n", "-", "_", " ", "!"}

\* "-n!"
ExampleOption == <<"-", "n", "!">>

FileNames ==
    UNION {[1..n -> NameAlphabet] : n \in 1..MaxNameLen} \cup {ExampleOption}

\* the subdirectory of the folder
SubDir == <<"n">>

FilePaths ==
    {<< Top, name >> : name \in FileNames \ {SubDir}}
        \cup {<< SubDir, <<"n", "!">> >>, << SubDir, <<"n">> >>}

\* a folder with the files at the paths of P, each holding its own path
FolderOf(P) == [p \in P |-> p]

InitFilenames ==
    /\ ParserIdle
    /\ \E p, q \in FilePaths : folder = FolderOf({p, q})
    /\ dirs = {SubDir}
    /\ lines = << >>
    /\ recursive \in BOOLEAN
    /\ sh = "find"
    /\ runs = 1
    /\ original = folder

NextFilenames == FindFiles \/ CleanNext \/ Complete \/ RunAgain

SpecFilenames == InitFilenames /\ [][NextFilenames]_vars

----------------------------------------------------------------------------
(* clean_json.sh, run on an existing folder.  The folder maps the path of a  *)
(* regular file to its bytes and to the number of times the file at that     *)
(* path has been replaced by another one.                                    *)

\* ".json"
JsonSuffix == <<".", "j", "s", "o", "n">>

\* -name "*.json" (line 22)
IsJsonName(name) ==
    /\ Len(name) >= Len(JsonSuffix)
    /\ SubSeq(name, Len(name) - Len(JsonSuffix) + 1, Len(name)) = JsonSuffix

\* find "$folder_path" -type f -name "*.json" (line 22)
FoundJson(f) == {p \in DOMAIN f : IsJsonName(p[2])}

TrBeforeNewline(bytes) ==
    LET keep == {k \in 1..Len(bytes) :
                    ~(bytes[k] = "\r" /\ k < Len(bytes) /\ bytes[k + 1] = "\n")}
        F[k \in 0..Len(bytes)] ==
            IF k = 0 THEN << >>
            ELSE IF k \in keep THEN Append(F[k - 1], bytes[k]) ELSE F[k - 1]
    IN  F[Len(bytes)]

\* tr -d '\r' (line 29)
Tr(bytes) == SelectSeq(bytes, LAMBDA b : b # "\r")

\* one turn of the loop body (lines 23-40) for the file read from the line:
\* the temporary file replaces the file when cmp finds a difference and is
\* removed otherwise
CleanJson(f, line) ==
    LET file == ReadLine(line)
        temp_file == Tr(f[file].bytes)
    IN  IF temp_file # f[file].bytes
        THEN [f EXCEPT ![file] = [bytes |-> temp_file, replaced |-> @.replaced + 1]]
        ELSE f

FindJson ==
    /\ sh = "find"
    /\ lines' \in Orders(FoundJson(folder))
    /\ sh' = "loop"
    /\ UNCHANGED <<folder, dirs, recursive, runs, original>>
    /\ UNCHANGED parserVars

CleanJsonNext ==
    /\ sh = "loop"
    /\ lines # << >>
    /\ folder' = CleanJson(folder, Head(lines))
    /\ lines' = Tail(lines)
    /\ UNCHANGED <<dirs, recursive, sh, runs, original>>
    /\ UNCHANGED parserVars

\* echo "Processing complete." (line 43)
CompleteJson ==
    /\ sh = "loop"
    /\ lines = << >>
    /\ sh' = "end"
    /\ UNCHANGED <<folder, dirs, lines, recursive, runs, original>>
    /\ UNCHANGED parserVars

\* the script is run again on the folder as the last run left it
RunJsonAgain ==
    /\ sh = "end"
    /\ runs < MaxRuns
    /\ sh' = "find"
    /\ runs' = runs + 1
    /\ original' = folder
    /\ UNCHANGED <<folder, dirs, lines, recursive>>
    /\ UNCHANGED parserVars

ByteAlphabet == {"x", "\r", "\n"}

FileBytes == UNION {[1..n -> ByteAlphabet] : n \in 0..MaxContentLen}

\* "a.json"
JsonName == <<"a">> \o JsonSuffix

\* "a.txt"
TextName == <<"a", ".", "t", "x", "t">>

\* a.json and a.txt in the folder and a.json in its subdirectory
JsonFolder(top, sub, text) ==
    [p \in {<< Top, JsonName >>, << SubDir, JsonName >>, << Top, TextName >>} |->
        [bytes |-> IF p = << Top, JsonName >> THEN top
                   ELSE IF p = << SubDir, JsonName >> THEN sub
                   ELSE text,
         replaced |-> 0]]

InitJson ==
    /\ ParserIdle
    /\ \E top, sub \in FileBytes : folder = JsonFolder(top, sub, <<"x", "\r", "\n">>)
    /\ dirs = {SubDir}
    /\ lines = << >>
    /\ recursive = TRUE
    /\ sh = "find"
    /\ runs = 1
    /\ original = folder

NextJson == FindJson \/ CleanJsonNext \/ CompleteJson \/ RunJsonAgain

SpecJson == InitJson /\ [][NextJson]_vars

----------------------------------------------------------------------------
(* Reading a result *)

\* the bracket candidates among the parts, in order
Candidates(ps) == [k \in 1..(Len(ps) \div 2) |-> ps[2 * k]]

\* the candidate passes the shape test and some data point starts with it
IsResolvable(c) ==
    /\ LooksLikeCitation(c)
    /\ FindCitationIndexInDataPoints(answer.data_points, c) # -1

Elems(s) == {s[i] : i \in 1..Len(s)}

NoDuplicates(s) == \A i, j \in 1..Len(s) : i # j => s[i] # s[j]

\* s without the later occurrences of its elements
FirstOccurrences(s) ==
    LET F[k \in 0..Len(s)] ==
          IF k = 0 THEN << >>
          ELSE IF s[k] \in Elems(F[k - 1]) THEN F[k - 1]
          ELSE Append(F[k - 1], s[k])
    IN  F[Len(s)]

\* the first position >= i of h that holds x (Len(h) + 1 if there is none)
RECURSIVE NextAt(_, _, _)
NextAt(h, i, x) ==
    IF i > Len(h) \/ h[i] = x THEN i ELSE NextAt(h, i + 1, x)

UnescapeChar(c) ==
    CASE c = "&amp;" -> "&"
      [] c = "&lt;" -> "<"
      [] c = "&gt;" -> ">"
      [] c = "&quot;" -> "\""
      [] c = "&#x27;" -> "'"
      [] OTHER -> c

UnescapeHtml(s) == [i \in 1..Len(s) |-> UnescapeChar(s[i])]

RECURSIVE NumberOf(_)
NumberOf(ds) ==
    IF ds = << >> THEN 0
    ELSE 10 * NumberOf(SubSeq(ds, 1, Len(ds) - 1))
         + ((CHOOSE d \in 1..10 : DigitChars[d] = ds[Len(ds)]) - 1)

\* the citation markers of a markup text, left to right: the number each
\* displays and the identifier it carries
RECURSIVE MarkersFrom(_, _)
MarkersFrom(h, i) ==
    IF i > Len(h) THEN << >>
    ELSE IF h[i] = SupOpen
    THEN LET j == NextAt(h, i, SupMid)
             k == NextAt(h, j, SupClose)
         IN  << [n |-> NumberOf(SubSeq(h, j + 1, k - 1)),
                 title |-> UnescapeHtml(SubSeq(h, i + 1, j - 1))] >>
             \o MarkersFrom(h, k + 1)
    ELSE MarkersFrom(h, i + 1)

MarkersOf(h) == MarkersFrom(h, 1)

MarkerNumbers(h) == [k \in 1..Len(MarkersOf(h)) |-> MarkersOf(h)[k].n]

\* the markup text with every marker replaced by "[" identifier "]"
RECURSIVE UnmarkFrom(_, _)
UnmarkFrom(h, i) ==
    IF i > Len(h) THEN << >>
    ELSE IF h[i] = SupOpen
    THEN LET j == NextAt(h, i, SupMid)
             k == NextAt(h, j, SupClose)
         IN  Literal(UnescapeHtml(SubSeq(h, i + 1, j - 1))) \o UnmarkFrom(h, k + 1)
    ELSE << h[i] >> \o UnmarkFrom(h, i + 1)

Unmark(h) == UnmarkFrom(h, 1)

IsBracket(c) == c = "[" \/ c = "]"

HasBracket(s) == \E i \in 1..Len(s) : IsBracket(s[i])

\* the position of the last bracket character of s (0 if there is none)
LastBracket(s) ==
    IF HasBracket(s)
    THEN CHOOSE i \in 1..Len(s) :
            IsBracket(s[i]) /\ \A j \in (i + 1)..Len(s) : ~IsBracket(s[j])
    ELSE 0

\* s is t with whitespace removed at both ends, and only that
IsTrimOf(s, t) ==
    \E i \in 1..(Len(t) + 1) : \E j \in 0..Len(t) :
        /\ s = SubSeq(t, i, j)
        /\ \A k \in 1..(i - 1) : t[k] \in WhiteSpace
        /\ \A k \in (j + 1)..Len(t) : t[k] \in WhiteSpace
        /\ Len(s) > 0 => (s[1] \notin WhiteSpace /\ s[Len(s)] \notin WhiteSpace)

Done == pc = "done"

----------------------------------------------------------------------------
(* The claims *)

\* C1: the returned citations and citationUrls have the same length, and
\* citationUrls[i] is the URL recorded together with the identifier
\* citations[i]: both lists are projections of the found-citations list, in
\* its order.
C1_ListsAligned ==
    Done =>
      /\ Len(result.citations) = Len(result.citationUrls)
      /\ Len(result.citations) = Len(foundCitationsInText)
      /\ \A i \in 1..Len(foundCitationsInText) :
            foundCitationsInText[i] =
                [identifier |-> result.citations[i], url |-> result.citationUrls[i]]

\* a result with a citation whose URL is missing before one whose URL is known
C1_Witness ==
    /\ Done
    /\ Len(result.citations) >= 2
    /\ result.citationUrls[1] = ""
    /\ result.citationUrls[2] # ""

\* C2: no identifier occurs twice in the found-citations list, after every
\* candidate processed, and none occurs twice in the returned citations.
C2_UniqueIdentifiers ==
    /\ NoDuplicates(CitationsOf(foundCitationsInText))
    /\ Done => NoDuplicates(result.citations)

\* in the middle of the map, a resolvable candidate has been met twice
C2_Witness ==
    /\ pc = "map"
    /\ index < Len(parts)
    /\ \E i, j \in 1..index :
          /\ i < j /\ i % 2 = 0 /\ j % 2 = 0
          /\ parts[i] = parts[j]
          /\ parts[i] \in Elems(CitationsOf(foundCitationsInText))

\* C3: every marker of answerHtml displays a number n with
\* 1 <= n <= Len(citations), and the identifier it carries is citations[n].
C3_MarkerNumbers ==
    Done =>
      \A k \in 1..Len(MarkersOf(result.answerHtml)) :
          LET m == MarkersOf(result.answerHtml)[k]
          IN  /\ m.n \in 1..Len(result.citations)
              /\ result.citations[m.n] = m.title

\* three markers, the third repeating the first citation after a second one
C3_Witness ==
    /\ Done
    /\ Len(MarkersOf(result.answerHtml)) >= 3
    /\ MarkersOf(result.answerHtml)[1].n = 1
    /\ MarkersOf(result.answerHtml)[2].n = 2
    /\ MarkersOf(result.answerHtml)[3].n = 1

\* C4: a candidate that passes both validations and occurs N >= 1 times as a
\* bracket token has exactly one entry in citations, and the N markers
\* emitted for it all display the same number.
C4_RepeatedCandidate ==
    Done =>
      \A k \in 1..Len(Candidates(parts)) :
          LET c == Candidates(parts)[k]
              ms == MarkersOf(result.answerHtml)
              mine == {i \in 1..Len(ms) : ms[i].title = c}
          IN  IsResolvable(c) =>
                /\ Cardinality({i \in 1..Len(result.citations) :
                                    result.citations[i] = c}) = 1
                /\ Cardinality(mine) =
                     Cardinality({i \in 1..Len(Candidates(parts)) :
                                      Candidates(parts)[i] = c})
                /\ \A i, j \in mine : ms[i].n = ms[j].n

\* a resolvable candidate occurs three times, around another citation
C4_Witness ==
    /\ Done
    /\ Len(result.citations) = 2
    /\ \E c \in Elems(Candidates(parts)) :
          /\ IsResolvable(c)
          /\ result.citations[2] = c
          /\ Cardinality({i \in 1..Len(Candidates(parts)) :
                              Candidates(parts)[i] = c}) = 3

\* C5: citations lists the resolvable candidates in the order of their first
\* occurrence; for distinct resolvable candidates met in the order A, B, A, C
\* the result has citations = <<A, B, C>> and the markers display 1, 2, 1, 3.
C5_FirstOccurrenceOrder ==
    Done =>
      /\ result.citations = FirstOccurrences(SelectSeq(Candidates(parts), IsResolvable))
      /\ \A a, b, c \in Elems(Candidates(parts)) :
            ( /\ Candidates(parts) = <<a, b, a, c>>
              /\ a # b /\ a # c /\ b # c
              /\ IsResolvable(a) /\ IsResolvable(b) /\ IsResolvable(c) )
            => /\ result.citations = <<a, b, c>>
               /\ MarkerNumbers(result.answerHtml) = <<1, 2, 1, 3>>

\* the answer "[b.p][c.p][b.p][a.p]" with every data point known
C5_Witness ==
    /\ Done
    /\ Candidates(parts) = << <<"b", ".", "p">>, <<"c", ".", "p">>,
                              <<"b", ".", "p">>, <<"a", ".", "p">> >>
    /\ \A k \in 1..4 : IsResolvable(Candidates(parts)[k])

\* C6: for an answer without "[" and "]", answerHtml is the answer with the
\* whitespace at both ends removed, and citations and citationUrls are empty.
C6_PlainText ==
    (Done /\ ~HasBracket(answer.content)) =>
      /\ IsTrimOf(result.answerHtml, answer.content)
      /\ result.citations = << >>
      /\ result.citationUrls = << >>

\* a plain answer with whitespace at both ends, parsed while streaming
C6_Witness ==
    /\ Done
    /\ isStreaming
    /\ ~HasBracket(answer.content)
    /\ Len(answer.content) >= 3
    /\ answer.content[1] \in WhiteSpace
    /\ answer.content[Len(answer.content)] \in WhiteSpace
    /\ Len(result.answerHtml) > 0

\* C7: while streaming, if the last bracket of the trimmed answer is "[", the
\* text from that "[" on is left out: the text parsed is the prefix before
\* it, not trimmed again; answerHtml renders exactly that prefix and every
\* candidate and citation comes from it.  "See [doc1.pdf#p" gives "See ".
C7_TypedCitationOmitted ==
    LET t == Trim(answer.content)
        k == LastBracket(t)
        prefix == SubSeq(t, 1, k - 1)
    IN  (Done /\ isStreaming /\ k > 0 /\ t[k] = "[") =>
          /\ parsedAnswer = prefix
          /\ Unmark(result.answerHtml) = prefix
          /\ Candidates(parts) = Candidates(Split(prefix))
          /\ Elems(result.citations) \subseteq Elems(Candidates(Split(prefix)))
          /\ answer.content = ExampleTyping =>
                /\ result.answerHtml = <<"S", "e", "e", " ">>
                /\ result.citations = << >>
                /\ result.citationUrls = << >>

\* a citation, a space and a marker still being typed
C7_Witness ==
    /\ Done
    /\ isStreaming
    /\ LastBracket(Trim(answer.content)) > 0
    /\ Trim(answer.content)[LastBracket(Trim(answer.content))] = "["
    /\ Len(result.citations) = 1
    /\ result.answerHtml[Len(result.answerHtml)] = " "

\* C8: while streaming, if the last bracket of the trimmed answer is "]" or
\* the answer has no bracket, the result is the result of the same call with
\* isStreaming false.
C8_NoTruncation ==
    LET t == Trim(answer.content)
        k == LastBracket(t)
    IN  (Done /\ isStreaming /\ (k = 0 \/ t[k] = "]")) =>
          result = ParseAnswerToHtml(answer, FALSE)

\* a citation followed by more text, parsed while streaming
C8_Witness ==
    /\ Done
    /\ isStreaming
    /\ LastBracket(Trim(answer.content)) \in 1..(Len(Trim(answer.content)) - 1)
    /\ Trim(answer.content)[LastBracket(Trim(answer.content))] = "]"
    /\ Len(result.citations) >= 1

\* the callback is about to handle a candidate that no data point starts with
AtNotFound ==
    /\ pc = "map"
    /\ index < Len(parts)
    /\ index % 2 = 1
    /\ FindCitationIndexInDataPoints(answer.data_points, parts[index + 1]) = -1

\* C9: a candidate that no entry of the resolved data points starts with is
\* re-emitted as "[" candidate "]"; it adds no found citation and leaves the
\* found citations, hence citations, citationUrls and every number, as they
\* were.
C9_NotFoundLiteral ==
    /\ [][AtNotFound =>
            /\ fragments' = Append(fragments, Literal(parts[index + 1]))
            /\ foundCitationsInText' = foundCitationsInText]_vars
    /\ [](Done =>
            \A k \in 1..Len(Candidates(parts)) :
               FindCitationIndexInDataPoints(answer.data_points,
                                             Candidates(parts)[k]) = -1
               => /\ Candidates(parts)[k] \notin Elems(result.citations)
                  /\ fragments[2 * k] = Literal(Candidates(parts)[k]))

\* a well-shaped candidate without data point between two citations, which
\* are numbered 1 and 2
C9_Witness ==
    /\ Done
    /\ Len(Candidates(parts)) = 3
    /\ LooksLikeCitation(Candidates(parts)[2])
    /\ FindCitationIndexInDataPoints(answer.data_points, Candidates(parts)[2]) = -1
    /\ MarkerNumbers(result.answerHtml) = <<1, 2>>
    /\ Len(result.citations) = 2

\* C10: a candidate that fails the shape test is re-emitted as
\* "[" candidate "]" and creates no citation, also when a data point starts
\* with it.
C10_BadShapeLiteral ==
    \A i \in 1..index :
        (pc # "call" /\ i % 2 = 0 /\ ~LooksLikeCitation(parts[i])) =>
          /\ fragments[i] = Literal(parts[i])
          /\ parts[i] \notin Elems(CitationsOf(foundCitationsInText))
          /\ Done => /\ parts[i] \notin Elems(result.citations)
                     /\ result.answerHtml = Join(fragments)

\* the candidate "R" is literal although the data point "R: t" starts with it
C10_Witness ==
    /\ Done
    /\ \E i \in 1..Len(parts) :
          /\ i % 2 = 0
          /\ ~LooksLikeCitation(parts[i])
          /\ FindCitationIndexInDataPoints(answer.data_points, parts[i]) # -1
          /\ fragments[i] = Literal(parts[i])
    /\ Len(result.citations) >= 1

\* the array of data points the call searches, and its list of source URLs
SearchedArray == DataPointsArray(answer.data_points).array

GivenUrls == SourceUrlsOf(answer.sourceurl)

\* j is the position of the first entry of arr that starts with c
IsFirstStart(arr, c, j) ==
    /\ j \in 1..Len(arr)
    /\ StartsWith(arr[j], c)
    /\ \A k \in 1..(j - 1) : ~StartsWith(arr[k], c)

\* C11: the URL recorded for a citation is sourceUrls[j], j being the index of
\* the first entry of the resolved data points that starts with it; it
\* follows the position of the data point, not the order of discovery:
\* citing b.p then a.p with data points a.p, b.p gives <<urlB, urlA>>.
C11_UrlOfFirstDataPoint ==
    Done =>
      /\ \A i \in 1..Len(result.citations) :
            \E j \in 1..Len(SearchedArray) :
               /\ IsFirstStart(SearchedArray, result.citations[i], j)
               /\ j <= Len(GivenUrls) => result.citationUrls[i] = GivenUrls[j]
      /\ ( /\ Candidates(parts) = << <<"b", ".", "p">>, <<"a", ".", "p">> >>
           /\ Len(SearchedArray) >= 2
           /\ SubSeq(SearchedArray, 1, 2) = <<DataPointA, DataPointB>>
           /\ Len(GivenUrls) >= 2 )
         => result.citationUrls = << GivenUrls[2], GivenUrls[1] >>

\* b.p is cited before a.p, and two data points start with a.p
C11_Witness ==
    /\ Done
    /\ Candidates(parts) = << <<"b", ".", "p">>, <<"a", ".", "p">> >>
    /\ SearchedArray = <<DataPointA, DataPointB, DataPointA2>>
    /\ result.citationUrls = <<"urlB", "urlA">>

C13_FlatAndTextAgree ==
    LET dp == answer.data_points
    IN  /\ (Done /\ dp.isArray) =>
              result = ParseAnswerToHtml(
                         [answer EXCEPT !.data_points =
                              ObjectDataPoints(TRUE, dp.items, FALSE, << >>)],
                         isStreaming)
        /\ (Done /\ ~dp.isArray /\ dp.isObject /\ dp.textIsArray /\ ~dp.sourcesIsArray) =>
              result = ParseAnswerToHtml(
                         [answer EXCEPT !.data_points = FlatDataPoints(dp.text)],
                         isStreaming)

\* a call with { text: D } that finds two citations and leaves text around them
C13_Witness ==
    /\ Done
    /\ ~answer.data_points.isArray
    /\ answer.data_points.textIsArray
    /\ ~answer.data_points.sourcesIsArray
    /\ result.citationUrls = <<"urlB", "urlA">>
    /\ Len(MarkersOf(result.answerHtml)) = 2
    /\ Len(result.answerHtml) > Len(RenderSup(<<"a", ".", "p">>, 1)) * 2

\* the container is neither an array nor an object with an array under text
\* or sources
UnknownShape(dp) ==
    /\ ~dp.isArray
    /\ ~(dp.isObject /\ dp.textIsArray)
    /\ ~(dp.isObject /\ dp.sourcesIsArray)

\* C14: when the data-points container has no known shape, every candidate
\* is re-emitted literally, citations and citationUrls are empty, and the
\* call still returns its result.
C14_UnknownShape ==
    UnknownShape(answer.data_points) =>
      /\ pc # "threw"
      /\ foundCitationsInText = << >>
      /\ Done =>
           /\ result.citations = << >>
           /\ result.citationUrls = << >>
           /\ MarkersOf(result.answerHtml) = << >>
           /\ result.answerHtml = parsedAnswer
           /\ \A k \in 1..Len(Candidates(parts)) :
                 fragments[2 * k] = Literal(Candidates(parts)[k])

\* the container is null and the answer holds two well-shaped candidates
C14_Witness ==
    /\ Done
    /\ UnknownShape(answer.data_points)
    /\ ~answer.data_points.isObject
    /\ Len(Candidates(parts)) = 2
    /\ \A k \in 1..2 : LooksLikeCitation(Candidates(parts)[k])

HasStart(arr, c) == \E j \in 1..Len(arr) : StartsWith(arr[j], c)

\* C15: for an object container the array under text is used whenever it is
\* an array, and sources only when text is not: a candidate that only an
\* entry of sources starts with is literal when text is an array, and the
\* matched index, hence the URL, is an index into the array used.
C15_TextBeforeSources ==
    LET dp == answer.data_points
        used == IF dp.textIsArray THEN dp.text ELSE dp.sources
    IN  (Done /\ ~dp.isArray /\ dp.isObject /\ (dp.textIsArray \/ dp.sourcesIsArray)) =>
          /\ \A k \in 1..Len(Candidates(parts)) :
                LET c == Candidates(parts)[k]
                IN  IF HasStart(used, c) /\ LooksLikeCitation(c)
                    THEN c \in Elems(result.citations)
                    ELSE /\ fragments[2 * k] = Literal(c)
                         /\ c \notin Elems(result.citations)
          /\ \A i \in 1..Len(result.citations) :
                \E j \in 1..Len(used) :
                   /\ IsFirstStart(used, result.citations[i], j)
                   /\ j <= Len(GivenUrls) => result.citationUrls[i] = GivenUrls[j]

\* text is an array without a.p, sources holds a.p: [a.p] stays literal while
\* [b.p] is cited
C15_Witness ==
    /\ Done
    /\ answer.data_points.textIsArray
    /\ answer.data_points.sourcesIsArray
    /\ \E k \in 1..Len(Candidates(parts)) :
          /\ HasStart(answer.data_points.sources, Candidates(parts)[k])
          /\ ~HasStart(answer.data_points.text, Candidates(parts)[k])
          /\ fragments[2 * k] = Literal(Candidates(parts)[k])
    /\ Len(result.citations) = 1

\* how far the call has come: it grows with every step and is at most
\* Len(parts) + 2
Progress ==
    CASE pc = "call" -> 0
      [] pc = "map" -> 1 + index
      [] pc = "done" -> 2 + Len(parts)
      [] OTHER -> 0

\* a step of the call is enabled: Begin at "call", MapPart or Return at "map"
CanStep == pc = "call" \/ (pc = "map" /\ index <= Len(parts))

\* C16: for every answer text, isStreaming value and shape of data points and
\* source URLs the call terminates and returns a record with answerHtml,
\* citations and citationUrls; it never throws.  Stated as: no step ends in a
\* TypeError, a call that has not returned can take a step, every step moves
\* the call forward, and the steps are bounded by the length of the answer.
C16_AlwaysReturns ==
    /\ [](/\ pc \in {"call", "map", "done"}
          /\ Done \/ CanStep
          /\ Progress <= Len(parts) + 2
          /\ Len(parts) <= Len(answer.content) + 1
          /\ Done => /\ DOMAIN result = {"answerHtml", "citations", "citationUrls"}
                     /\ result.answerHtml = Join(fragments)
                     /\ Len(fragments) = Len(parts))
    /\ [][Progress' > Progress]_vars

\* a returned call whose answer held candidates while the data points were
\* null and the URL list absent
C16_Witness ==
    /\ Done
    /\ ~answer.data_points.isObject
    /\ ~answer.sourceurl.present
    /\ Len(Candidates(parts)) >= 2
    /\ HasBracket(parts[Len(parts)])

\* C17: no state survives a call.  In a sequence of calls every result is the
\* function of that call's own answer, isStreaming and context; each call
\* starts with an empty found-citations list, its first marker shows 1, and
\* what an earlier call found is in the result only if this call finds it.
C17_NoStateAcrossCalls ==
    /\ (pc = "map" /\ index = 0) => foundCitationsInText = << >>
    /\ pc = "map" =>
          Elems(CitationsOf(foundCitationsInText)) \subseteq Elems(Candidates(parts))
    /\ Done =>
          /\ result = ParseAnswerToHtml(answer, isStreaming)
          /\ Elems(result.citations) \subseteq Elems(Candidates(parts))
          /\ MarkersOf(result.answerHtml) # << >> =>
                MarkersOf(result.answerHtml)[1].n = 1

\* the second call has handled all its parts and numbers b.p as 1, while the
\* result of the first call, still in place, lists a.p before b.p
C17_Witness ==
    /\ calls = 2
    /\ pc = "map"
    /\ index = Len(parts)
    /\ result.citations = << <<"a", ".", "p">>, <<"b", ".", "p">> >>
    /\ CitationsOf(foundCitationsInText) = << <<"b", ".", "p">> >>

\* C18: while streaming, no "[" of the text that is tokenized and rendered is
\* left unclosed: every "[" in it is followed later by a "]", also when the
\* answer holds several unclosed "[".
C18_NoUnclosedBracket ==
    (pc \in {"map", "done"} /\ isStreaming) =>
      \A i \in 1..Len(parsedAnswer) :
          parsedAnswer[i] = "[" =>
             \E j \in (i + 1)..Len(parsedAnswer) : parsedAnswer[j] = "]"

IsPrefix(s, t) == Len(s) <= Len(t) /\ SubSeq(t, 1, Len(s)) = s

\* the result of the streaming call on the first n characters of the answer
StreamedPrefix(n) ==
    ParseAnswerToHtml([answer EXCEPT !.content = SubSeq(answer.content, 1, n)], TRUE)

\* C19: for a fixed context, the citations and citationUrls returned while
\* streaming for a prefix of the answer are prefixes of those returned for
\* the answer, streaming or not; so a marker shown for the prefix carries the
\* identifier that has its number in the result for the whole answer.
C19_StableNumbers ==
    Done =>
      \A n \in 0..Len(answer.content) :
         LET r == StreamedPrefix(n)
         IN  /\ IsPrefix(r.citations, result.citations)
             /\ IsPrefix(r.citationUrls, result.citationUrls)
             /\ \A k \in 1..Len(MarkersOf(r.answerHtml)) :
                   LET m == MarkersOf(r.answerHtml)[k]
                   IN  /\ m.n <= Len(result.citations)
                       /\ result.citations[m.n] = m.title

\* the whole answer has two citations; a prefix that ends inside the second
\* marker, which is cut off, has the first one only
C19_Witness ==
    /\ Done
    /\ ~isStreaming
    /\ Len(result.citations) = 2
    /\ \E n \in 0..Len(answer.content) :
          /\ Len(StreamedPrefix(n).citations) = 1
          /\ Len(ParsedAnswerOf(SubSeq(answer.content, 1, n), TRUE))
               < Len(Trim(SubSeq(answer.content, 1, n)))

\* the parts put together again, the candidates back in their brackets
RECURSIVE Rebuild(_, _)
Rebuild(ps, i) ==
    IF i > Len(ps) THEN << >>
    ELSE (IF i % 2 = 1 THEN ps[i] ELSE Literal(ps[i])) \o Rebuild(ps, i + 1)

\* t holds "[", one or more characters other than "]", then "]"
HoldsToken(t) ==
    \E i \in 1..Len(t) : \E j \in (i + 2)..Len(t) :
        /\ t[i] = "["
        /\ t[j] = "]"
        /\ \A k \in (i + 1)..(j - 1) : t[k] # "]"

\* C20: the parts alternate plain text and candidates, taken as the leftmost
\* non-overlapping occurrences of "[", one or more characters other than "]",
\* "]".  Every candidate is non-empty and holds no "]"; the parts, with the
\* brackets back, are the text that was split; no plain text holds an
\* occurrence (so "[]" stays in the plain text), and no "[" of the plain
\* text before a candidate could have started that occurrence earlier (so a
\* candidate may hold "[": "[x [a.p]" gives "x [a.p").
C20_Tokenization ==
    pc \in {"map", "done"} =>
      /\ Len(parts) % 2 = 1
      /\ Rebuild(parts, 1) = parsedAnswer
      /\ \A k \in 1..Len(Candidates(parts)) :
            /\ Len(Candidates(parts)[k]) >= 1
            /\ "]" \notin Elems(Candidates(parts)[k])
      /\ \A i \in 1..Len(parts) :
            i % 2 = 1 =>
              /\ ~HoldsToken(parts[i])
              /\ i < Len(parts) =>
                    \A a \in 1..Len(parts[i]) :
                        parts[i][a] = "[" =>
                           \E b \in (a + 1)..Len(parts[i]) : parts[i][b] = "]"
      /\ answer.content = ExampleNested =>
            parts = << <<"[", "]">>, <<"x", " ", "[", "a", ".", "p">>, << >> >>

\* "[][x [a.p]": the pair "[]" is plain text and the candidate holds a "["
C20_Witness ==
    /\ Done
    /\ Len(parts) = 3
    /\ parts[1] = <<"[", "]">>
    /\ "[" \in Elems(parts[2])

\* C21: putting "[" identifier "]" back for every marker of answerHtml gives
\* the text that was tokenized, which is the trimmed answer, cut before a
\* marker still being typed when streaming; when no candidate passes both
\* validations, answerHtml is that text itself.
C21_OnlyMarkersChange ==
    Done =>
      /\ Unmark(result.answerHtml) = ParsedAnswerOf(answer.content, isStreaming)
      /\ (\A k \in 1..Len(Candidates(parts)) : ~IsResolvable(Candidates(parts)[k]))
            => result.answerHtml = ParsedAnswerOf(answer.content, isStreaming)

\* a streamed answer that is cut, with a marker, a literal candidate and
\* plain text before the cut
C21_Witness ==
    /\ Done
    /\ isStreaming
    /\ Len(parsedAnswer) < Len(Trim(answer.content))
    /\ Len(MarkersOf(result.answerHtml)) >= 1
    /\ \E k \in 1..Len(Candidates(parts)) : ~IsResolvable(Candidates(parts)[k])
    /\ \E i \in 1..Len(parts) : i % 2 = 1 /\ Len(parts[i]) > 0

\* c ends with one or more characters that pass ok, a dot, one or more word
\* characters and, optionally, "#" with non-whitespace characters up to the end
EndsWithShape(c, ok(_)) ==
    \E s \in 1..Len(c) : \E d \in (s + 1)..Len(c) : \E e \in (d + 1)..Len(c) :
        /\ \A k \in s..(d - 1) : ok(c[k])
        /\ c[d] = "."
        /\ \A k \in (d + 1)..e : c[k] \in WordChars
        /\ \/ e = Len(c)
           \/ /\ c[e + 1] = "#"
              /\ \A k \in (e + 2)..Len(c) : c[k] \notin WhiteSpace

AnyCharacter(x) == TRUE

NoLineTerminator(x) == x \notin LineTerminators

\* the candidate of the call has become a citation
IsAccepted(c) == c \in Elems(result.citations)

\* C22 as stated: a candidate that a data point starts with is accepted
\* exactly when it ends with at least one character, a dot, one or more word
\* characters and optionally "#" with non-whitespace characters to the end.
C22_ShapeAnyCharacter ==
    Done =>
      \A k \in 1..Len(Candidates(parts)) :
          LET c == Candidates(parts)[k]
          IN  FindCitationIndexInDataPoints(answer.data_points, c) # -1
                => (IsAccepted(c) <=> EndsWithShape(c, AnyCharacter))

\* C22, amended: the character before the dot is any character other than a
\* line terminator; with that, a candidate that a data point starts with is
\* accepted exactly when it ends with the shape, "a.pdf", "a.pdf#" and
\* "a.pdf#page=1" are accepted, and ".pdf", "a.", "README" and
\* "a.pdf#page 1" are rejected.
C22_Shape ==
    Done =>
      \A k \in 1..Len(Candidates(parts)) :
          LET c == Candidates(parts)[k]
          IN  /\ FindCitationIndexInDataPoints(answer.data_points, c) # -1
                   => (IsAccepted(c) <=> EndsWithShape(c, NoLineTerminator))
              /\ c \in ExampleAccepted => result.citations = << c >>
              /\ c \in ExampleRejected =>
                    /\ result.citations = << >>
                    /\ result.answerHtml = answer.content

\* the candidate "a.pdf#page=1" of the examples has been accepted
C22_Witness ==
    /\ Done
    /\ Len(Candidates(parts)) = 1
    /\ Len(Candidates(parts)[1]) = 12
    /\ Candidates(parts)[1] \in ExampleAccepted
    /\ result.citations = << Candidates(parts)[1] >>

\* a line terminator before the dot: the candidate is rejected
C22_WitnessLineTerminator ==
    /\ Done
    /\ Candidates(parts) = << <<"\n", ".", "p">> >>
    /\ result.citations = << >>

\* C23: with isStreaming false nothing is cut: the text tokenized is the
\* whole trimmed answer, and a marker left unclosed at its end, such as
\* "[doc1.pdf#p", is kept and stands literally at the end of answerHtml.
C23_TruncationOnlyWhenStreaming ==
    LET t == Trim(answer.content)
        k == LastBracket(t)
        h == result.answerHtml
    IN  (pc # "call" /\ ~isStreaming) =>
          /\ parsedAnswer = t
          /\ Done =>
               /\ Unmark(h) = t
               /\ (k > 0 /\ t[k] = "[") =>
                     /\ Len(h) >= Len(t) - k + 1
                     /\ SubSeq(h, Len(h) - (Len(t) - k), Len(h)) = SubSeq(t, k, Len(t))
               /\ answer.content = ExampleTyping => h = ExampleTyping

\* a citation and then an unclosed marker, parsed with isStreaming false
C23_Witness ==
    /\ Done
    /\ ~isStreaming
    /\ LastBracket(Trim(answer.content)) > 0
    /\ Trim(answer.content)[LastBracket(Trim(answer.content))] = "["
    /\ Len(result.citations) >= 1
    /\ result.answerHtml[Len(result.answerHtml)] = "b"

\* C24: no step of a call invokes onCitationClicked or changes the answer
\* passed in (its content, its data-points container, its source-URL list);
\* a step changes only the locals of the call, the diagnostics logged and
\* the value returned.
C24_NoOtherEffect ==
    [][ /\ clicked' = clicked
        /\ answer' = answer
        /\ isStreaming' = isStreaming
        /\ UNCHANGED scriptVars ]_vars

\* a call has returned a citation and logged a diagnostic; the callback has
\* not been invoked
C24_Witness ==
    /\ Done
    /\ Len(result.citations) >= 1
    /\ Len(console) >= 1
    /\ clicked = 0

\* the diagnostics of one level, in the order logged
LogsAt(level) == SelectSeq(console, LAMBDA d : d.level = level)

\* the candidate resolves to an index at which the source URLs have no entry
HasNoUrl(c) ==
    ~UrlAt(GivenUrls, FindCitationIndexInDataPoints(answer.data_points, c)).defined

\* C25 as stated: a call on a data-points container of unrecognized shape
\* has logged a diagnostic when it returns, and so has a call in which a
\* valid candidate has no resolvable URL.
C25_LoggedInEveryCall ==
    Done =>
      /\ UnknownShape(answer.data_points) => Len(LogsAt("error")) >= 1
      /\ (\E c \in Elems(result.citations) : HasNoUrl(c)) => Len(LogsAt("warn")) >= 1

\* C25, amended: a call on a container of unrecognized shape logs one
\* diagnostic for each bracket candidate of the tokenized text, hence at
\* least one when there is a candidate and none when there is no candidate;
\* on a recognized shape it logs none of that kind; and one diagnostic is
\* logged for each citation that has no URL at its index, when it is first
\* met.
C25_LoggedPerCandidate ==
    Done =>
      /\ UnknownShape(answer.data_points)
            => Len(LogsAt("error")) = Len(Candidates(parts))
      /\ ~UnknownShape(answer.data_points) => LogsAt("error") = << >>
      /\ [k \in 1..Len(LogsAt("warn")) |-> LogsAt("warn")[k].identifier]
            = SelectSeq(result.citations, HasNoUrl)

\* two candidates on a container of unrecognized shape: two diagnostics
C25_Witness ==
    /\ Done
    /\ UnknownShape(answer.data_points)
    /\ Len(Candidates(parts)) = 2
    /\ Len(LogsAt("error")) = 2

\* a call without candidates on such a container has logged nothing
C25_WitnessSilent ==
    /\ Done
    /\ UnknownShape(answer.data_points)
    /\ Len(parsedAnswer) > 0
    /\ Candidates(parts) = << >>
    /\ console = << >>

\* the 1-based position of c in citations (0 if it is not there)
PositionIn(s, c) ==
    IF c \in Elems(s) THEN CHOOSE i \in 1..Len(s) : s[i] = c ELSE 0

\* C26: two different candidates that both pass the shape test and have the
\* same first data point starting with them are two entries of citations,
\* with two different numbers on their markers and the same URL; "a.p" and
\* "a.p#2" against the data point "a.p#2" are such a pair.
C26_UniqueByIdentifier ==
    Done =>
      \A c1, c2 \in Elems(Candidates(parts)) :
          ( /\ c1 # c2
            /\ LooksLikeCitation(c1) /\ LooksLikeCitation(c2)
            /\ \E j \in 1..Len(SearchedArray) :
                  /\ IsFirstStart(SearchedArray, c1, j)
                  /\ IsFirstStart(SearchedArray, c2, j) )
          => LET i1 == PositionIn(result.citations, c1)
                 i2 == PositionIn(result.citations, c2)
                 ms == MarkersOf(result.answerHtml)
             IN  /\ i1 > 0 /\ i2 > 0 /\ i1 # i2
                 /\ result.citationUrls[i1] = result.citationUrls[i2]
                 /\ \A k \in 1..Len(ms) :
                       /\ ms[k].title = c1 => ms[k].n = i1
                       /\ ms[k].title = c2 => ms[k].n = i2

\* "[a.p#2][a.p][a.p#2]" against the data point "a.p#2"
C26_Witness ==
    /\ Done
    /\ result.citations = << <<"a", ".", "p", "#", "2">>, <<"a", ".", "p">> >>
    /\ result.citationUrls = <<"urlA2", "urlA2">>
    /\ MarkerNumbers(result.answerHtml) = <<1, 2, 1>>

\* C27: read left to right, the numbers on the markers of answerHtml make
\* their first appearances in the order 1, 2, ..., n, with n the length of
\* citations: no number is skipped, and every entry of citations has a
\* marker that displays its position.
C27_NoGaps ==
    Done =>
      LET ms == MarkersOf(result.answerHtml)
          n == Len(result.citations)
      IN  /\ FirstOccurrences(MarkerNumbers(result.answerHtml)) = [k \in 1..n |-> k]
          /\ Elems(MarkerNumbers(result.answerHtml)) = 1..n
          /\ \A i \in 1..n :
                \E k \in 1..Len(ms) : ms[k].n = i /\ ms[k].title = result.citations[i]

\* two citations, the second without a URL, each with two markers
C27_Witness ==
    /\ Done
    /\ Len(result.citations) = 2
    /\ result.citationUrls[2] = ""
    /\ MarkerNumbers(result.answerHtml) = <<1, 2, 1, 2>>

\* what the files of a folder hold
Held(f) == {f[p] : p \in DOMAIN f}

\* the file the loop is about to handle, as read from the line
Current == ReadLine(Head(lines))

\* the path the file the loop is about to handle would be renamed to
Target == << Current[1], NewBasename(Current[2]) >>

\* the cleaned basename differs from the basename and the target is taken
TargetTaken ==
    /\ sh = "loop" /\ lines # << >>
    /\ Current[2] # << >>
    /\ Target # Current
    /\ \/ Target \in DOMAIN folder
       \/ (Target[1] = Top /\ Target[2] \in dirs)

\* C28: a turn of the loop never replaces a file: a path that holds a file
\* before the turn holds the same file after it or none; when the cleaned
\* basename differs and a file or directory is at the target path, the turn
\* changes nothing, so the file keeps its name; and the folder always has as
\* many files as when the run started, holding what they held.
C28_NeverOverwrites ==
    /\ [](/\ Cardinality(DOMAIN folder) = Cardinality(DOMAIN original)
          /\ Held(folder) = Held(original)
          /\ Cardinality(Held(folder)) = Cardinality(DOMAIN folder))
    /\ [][ /\ \A p \in DOMAIN folder :
                p \in DOMAIN folder' => folder'[p] = folder[p]
           /\ TargetTaken => folder' = folder ]_vars

\* a run has ended in which one file was renamed and the other, whose
\* cleaned name is the name of the first, has kept its name
C28_Witness ==
    /\ sh = "end"
    /\ runs = 1
    /\ \E p, q \in DOMAIN folder :
          /\ p # q
          /\ folder[p] = p
          /\ p[2] # NewBasename(p[2])
          /\ q = << p[1], NewBasename(p[2]) >>
          /\ folder[q] # q

\* c has only kept characters, no two underscores in a row and no underscore
\* at either end
IsClean(c) ==
    /\ \A k \in 1..Len(c) : c[k] \in KeptChars
    /\ \A k \in 1..(Len(c) - 1) : ~(c[k] = "_" /\ c[k + 1] = "_")
    /\ Len(c) > 0 => (c[1] # "_" /\ c[Len(c)] # "_")

\* C29: the basename computed for the file the loop handles is clean, and
\* cleaning it again returns it unchanged; a second run of the script renames
\* nothing.
C29_CleanIdempotent ==
    /\ []((sh = "loop" /\ lines # << >>) =>
            /\ IsClean(NewBasename(Current[2]))
            /\ NewBasename(NewBasename(Current[2])) = NewBasename(Current[2]))
    /\ [][runs >= 2 => folder' = folder]_vars

\* the bytes s without its carriage returns
RECURSIVE WithoutCr(_)
WithoutCr(s) ==
    IF s = << >> THEN << >>
    ELSE IF Head(s) = "\r" THEN WithoutCr(Tail(s))
    ELSE << Head(s) >> \o WithoutCr(Tail(s))

HasCr(s) == \E k \in 1..Len(s) : s[k] = "\r"

\* C30: when a run has finished, the folder has the files it had; every
\* *.json file, in the folder or below it, holds what it held when the run
\* started without the carriage returns, and is replaced only if it held
\* one; every other file is as it was; and a run after the first changes
\* nothing.
C30_OnlyCarriageReturnsRemoved ==
    /\ [](sh = "end" =>
            /\ DOMAIN folder = DOMAIN original
            /\ \A p \in DOMAIN folder :
                  /\ IsJsonName(p[2]) =>
                        /\ folder[p].bytes = WithoutCr(original[p].bytes)
                        /\ ~HasCr(original[p].bytes) => folder[p] = original[p]
                  /\ ~IsJsonName(p[2]) => folder[p] = original[p])
    /\ [][runs >= 2 => folder' = folder]_vars

\* the first run has finished: the file in the subdirectory, which held two
\* carriage returns, was replaced; the one in the folder held none and was not
C30_Witness ==
    /\ sh = "end"
    /\ runs = 1
    /\ original[<< SubDir, JsonName >>].bytes = <<"\r", "\r">>
    /\ folder[<< SubDir, JsonName >>] = [bytes |-> << >>, replaced |-> 1]
    /\ folder[<< Top, JsonName >>] = [bytes |-> <<"x", "\n">>, replaced |-> 0]

====
